---- MODULE Spec2Model ----
(***************************************************************************)
(* Model of geodo/core.py: the tile download coordinator                   *)
(* (download_srtm_file, download_dem3_viewpano under get_download_lock),   *)
(* the source selector and merge section of get_topo_file and the zone     *)
(* indexers.                                                               *)
(*                                                                         *)
(* Spec      processes calling download_srtm_file / download_dem3_viewpano *)
(*           on a shared cache directory.                                  *)
(* LiveSpec  Spec with the fairness of running processes and of lock       *)
(*           polling.                                                      *)
(* SpecSeq   one caller making its tile download calls one after the      *)
(*           other.                                                        *)
(* SpecTopo  one caller of get_topo_file, as the function is written.      *)
(* SpecMerge processes running the filter and merge section of             *)
(*           get_topo_file (from "filter for None" to the end) on given    *)
(*           candidate lists.                                              *)
(* SpecName  the zone indexers and the merged file name on given extents.  *)
(* SpecZone  srtm_zone on given extents and on their two parts.            *)
(* SpecTiles dem3_viewpano_zone and aster_zone on given extents.           *)
(***************************************************************************)
EXTENDS Integers, Sequences, FiniteSets, TLC

\* ------------------------------------------------------------------ bounds
NumProcs == 2
\* cap of the retry counter (the DEM3 retry loop has no bound of its own
\* on an incomplete transfer when run by a Python 2 interpreter)
MaxAttempts == 8

\* ------------------------------------------------------- program constants
\* retry=5 of _download_srtm_file_unlocked, retry_max = 5 of the DEM3 download
RetryMaxSrtm == 5
RetryMaxDem3 == 5
\* time.sleep(10)
SleepSecs == 10

Procs == 1..NumProcs
\* the cache directory the processes share (outdir)
Dirs == {"outdir"}

\* one tile per provider: the degree-grid cell of lon [10,12], lat [46,47]
\* and a lettered-grid cell
Tiles == {<<"srtm", "38_03">>, <<"dem3", "L32">>}
Kind(t) == t[1]

VARIABLES
    py2,      \* the interpreter is Python 2 (the code is written for 2 and 3)
    lock,     \* lock[d]: the processes holding download.lock of directory d
    fs,       \* fs[d][t]: the files of tile t in directory d
    pc,       \* pc[p]: where process p is in its call
    call,     \* call[p]: the arguments of the call of p
    rc,       \* rc[p]: retry_counter
    slept,    \* slept[p]: seconds spent in time.sleep during the call
    only5xx,  \* only5xx[p]: every fetch attempt of the call ended in a 5xx
    errb,     \* errb[p]: the local name err is bound (Python 2 keeps it)
    warm,     \* warm[p]: a call had returned a path for the tile before p's call
    res,      \* res[p]: how the last call of p ended
    okfetch,  \* okfetch[d][t]: archives of t fetched completely into d
    returned, \* returned[d][t]: some call returned a path for t in d
    prev,     \* SpecSeq: the arguments of the caller's previous call and how
              \* it ended
    again,    \* SpecSeq: the call under way repeats the previous call, which
              \* had ended without an error
    world,    \* SpecTopo: the files get_topo_file looks for
    topo,     \* SpecTopo: the latest call of get_topo_file and its outcome
    mfile,    \* SpecMerge: mfile[k]: the state of the merged file of key k
    merges,   \* SpecMerge: merges[k]: merged rasters written to the file of k
    mpc,      \* SpecMerge: mpc[p]: where process p is in the section
    mloc,     \* SpecMerge: mloc[p]: the locals of p and its outcome
    nm,       \* SpecName: the latest name computed
    zn,       \* SpecZone: the latest zones computed by srtm_zone
    tz        \* SpecTiles: the latest result of dem3_viewpano_zone, aster_zone

dvars == <<py2, lock, fs, pc, call, rc, slept, only5xx, errb, warm,
           res, okfetch, returned>>
svars == <<prev, again>>
tvars == <<world, topo>>
mvars == <<mfile, merges, mpc, mloc>>
nvars == <<nm, zn, tz>>
vars == <<dvars, svars, tvars, mvars, nvars>>

\* ------------------------------------------------------------------ values
\* An exception: its class and the numbers it carries (HTTPError: its code).
\* res[p].exc is the exception that ended the call: propagated when the call
\* ends in an "error", caught by the handler that returns None when it ends
\* "absent"
NoExc == [type |-> "none", args |-> <<>>]
Exc(type) == [type |-> type, args |-> <<>>]

\* the HTTPError raised by urlretrieve for a status code
HTTPError(code) == [type |-> "HTTPError", args |-> <<code>>]

\* what `raise` re-raises at the end of the retries: the HTTPError caught;
\* the attempt count is only printed (lines 335-342, 410-417)
RaiseCountedError(code, attempts) == [type |-> "RuntimeError", args |-> <<code, attempts>>]
ReRaise(code, attempts) == HTTPError(code)

NoCall == [tile |-> <<"none", "">>, dir |-> "none"]
NoRes == [kind |-> "none", exc |-> NoExc, attempts |-> 0, slept |-> 0,
          only5xx |-> FALSE, warm |-> FALSE, tile |-> <<"none", "">>, dir |-> "none"]

\* files of one tile in one directory:
\*   zip  the archive ofile: "none", or what was downloaded: a "good" archive,
\*        a "bad" one (zipfile.BadZipfile), an "empty" one (no raster inside)
\*   hgt  the extracted *.hgt files of a DEM3 archive
\*   out  the tile raster: srtm_<zone>.tif, <zone>.tif
NoFiles == [zip |-> "none", hgt |-> FALSE, out |-> FALSE]

\* outcomes of urlretrieve: the archive arrives, an HTTPError with a code,
\* ContentTooShortError, another URLError
Archives == {"good", "bad", "empty"}
HttpCodes == {404, 403, 500}
Is5xx(code) == 500 <= code /\ code < 600

RetryMax(t) == IF Kind(t) = "srtm" THEN RetryMaxSrtm ELSE RetryMaxDem3

\* ------------------------------------------------------ the lock (87-93)
\* FileLock(lockfile).acquire(), or SoftFileLock(lockfile).acquire() where
\* FileLock raises: either returns once no process holds the lock of the
\* directory
AcquireUnchecked(p, d) ==
    /\ lock' = [lock EXCEPT ![d] = @ \cup {p}]
get_download_lock(p, d) ==
    /\ lock[d] = {}
    /\ lock' = [lock EXCEPT ![d] = @ \cup {p}]

\* leaving the with block, by return or by exception, releases the lock
ReleaseOnReturnOnly(p, d, kind) ==
    IF kind = "error" THEN lock' = lock ELSE lock' = [lock EXCEPT ![d] = @ \ {p}]
WithExit(p, d, kind) == lock' = [lock EXCEPT ![d] = @ \ {p}]

\* --------------------------------------------------------- calls (291-468)
\* download_srtm_file(zone, outdir), download_dem3_viewpano(zone, outdir)
CallWith(p, t, d) ==
    /\ pc[p] = "idle"
    /\ call' = [call EXCEPT ![p] = [tile |-> t, dir |-> d]]
    /\ warm' = [warm EXCEPT ![p] = returned[d][t]]
    /\ pc' = [pc EXCEPT ![p] = "acquire"]
    /\ UNCHANGED <<py2, lock, fs, rc, slept, only5xx, errb, res, okfetch, returned>>
    /\ UNCHANGED <<tvars, mvars, nvars>>

Call(p) ==
    /\ \E t \in Tiles, d \in Dirs : CallWith(p, t, d)
    /\ UNCHANGED svars

\* with get_download_lock(outdir):
Acquire(p) ==
    /\ pc[p] = "acquire"
    /\ get_download_lock(p, call[p].dir)
    /\ pc' = [pc EXCEPT ![p] = "check"]
    /\ UNCHANGED <<py2, fs, call, rc, slept, only5xx, errb, warm, res,
                   okfetch, returned>>
    /\ UNCHANGED <<svars, tvars, mvars, nvars>>

\* return and raise inside the with block, after `attempts` fetch attempts:
\* the outcome of the call is decided, the lock is still held
EndCall(p, kind, exc, attempts, o5) ==
    /\ pc' = [pc EXCEPT ![p] = "exit"]
    /\ res' = [res EXCEPT ![p] =
                 [kind |-> kind, exc |-> exc, attempts |-> attempts,
                  slept |-> slept[p], only5xx |-> o5, warm |-> warm[p],
                  tile |-> call[p].tile, dir |-> call[p].dir]]
    /\ UNCHANGED <<py2, lock, call, rc, slept, only5xx, errb, warm, returned>>
    /\ UNCHANGED <<svars, tvars, mvars, nvars>>

\* the with block is left (lines 306-307, 368-369): the lock is released and
\* the outcome reaches the caller
Leave(p) ==
    /\ pc[p] = "exit"
    /\ WithExit(p, call[p].dir, res[p].kind)
    /\ returned' = IF res[p].kind = "path"
                     THEN [returned EXCEPT ![call[p].dir][call[p].tile] = TRUE]
                     ELSE returned
    /\ pc' = [pc EXCEPT ![p] = "idle"]
    /\ res' = [res EXCEPT ![p] = NoRes]
    /\ rc' = [rc EXCEPT ![p] = 0]
    /\ slept' = [slept EXCEPT ![p] = 0]
    /\ only5xx' = [only5xx EXCEPT ![p] = FALSE]
    /\ errb' = [errb EXCEPT ![p] = FALSE]
    /\ warm' = [warm EXCEPT ![p] = FALSE]
    /\ UNCHANGED <<py2, fs, call, okfetch>>
    /\ UNCHANGED <<tvars, mvars, nvars>>

Exit(p) == Leave(p) /\ UNCHANGED svars

\* one caller that makes its calls one after the other: the call, with the
\* record of whether it repeats the previous call
NoPrev == [tile |-> <<"none", "">>, dir |-> "none", kind |-> "none"]

SeqCall(p) ==
    /\ \E t \in Tiles, d \in Dirs :
          /\ CallWith(p, t, d)
          /\ again' = (prev.tile = t /\ prev.dir = d /\ prev.kind \in {"path", "absent"})
    /\ UNCHANGED prev

SeqExit(p) ==
    /\ Leave(p)
    /\ prev' = [tile |-> call[p].tile, dir |-> call[p].dir, kind |-> res[p].kind]
    /\ again' = FALSE

\* a step inside the with block that does not end the call, after `attempts`
\* fetch attempts
Goto(p, label, attempts, o5, eb, secs) ==
    /\ pc' = [pc EXCEPT ![p] = label]
    /\ rc' = [rc EXCEPT ![p] = attempts]
    /\ only5xx' = [only5xx EXCEPT ![p] = o5]
    /\ errb' = [errb EXCEPT ![p] = eb]
    /\ slept' = [slept EXCEPT ![p] = secs]
    /\ UNCHANGED <<py2, lock, call, warm, res, returned>>
    /\ UNCHANGED <<svars, tvars, mvars, nvars>>

Stay(p, label) == Goto(p, label, rc[p], only5xx[p], errb[p], slept[p])

\* os.path.exists(ofile) of the SRTM download (line 319)
SrtmAlwaysFetch(f) == TRUE
SrtmArchiveMissing(f) == f.zip = "none"

\* the existence checks: line 319 (SRTM), lines 381 and 394 (DEM3)
Check(p) ==
    /\ pc[p] = "check"
    /\ LET t == call[p].tile
           f == fs[call[p].dir][t]
       IN  IF Kind(t) = "srtm"
             THEN Stay(p, IF SrtmArchiveMissing(f) THEN "fetch" ELSE "verify")
             ELSE IF f.out
                    THEN EndCall(p, "path", NoExc, 0, FALSE)
                    ELSE Stay(p, IF f.zip = "none" THEN "fetch" ELSE "glob")
    /\ UNCHANGED <<fs, okfetch>>

\* the 5xx branch is taken while retry_counter <= retry_max (lines 335, 410)
RetryWithin(counter, max) == counter < max
RetryAgain(counter, max) == counter <= max

\* progress_urlretrieve(ifile, ofile) returns: the archive is in the directory
FetchArrives(p) ==
    /\ pc[p] = "fetch"
    /\ rc[p] < MaxAttempts
    /\ \E a \in Archives :
          fs' = [fs EXCEPT ![call[p].dir][call[p].tile].zip = a]
    /\ okfetch' = [okfetch EXCEPT ![call[p].dir][call[p].tile] =
                      IF @ < 2 THEN @ + 1 ELSE @]
    /\ Goto(p, "extract", rc[p] + 1, FALSE, errb[p], slept[p])

\* urlretrieve raises HTTPError: no file is left (_urlretrieve, lines 96-102);
\* except HTTPError as err (lines 330-342, 405-417)
FetchHTTPError(p) ==
    /\ pc[p] = "fetch"
    /\ rc[p] < MaxAttempts
    /\ \E code \in HttpCodes :
         LET n == rc[p] + 1
             o5 == Is5xx(code) /\ (rc[p] = 0 \/ only5xx[p])
         IN  IF code = 404
               THEN EndCall(p, "absent", HTTPError(code), n, o5)
               ELSE IF Is5xx(code) /\ RetryAgain(n, RetryMax(call[p].tile))
                      \* Python 3 unbinds err at the end of the handler
                      THEN Goto(p, "sleep", n, o5, py2, slept[p])
                      ELSE EndCall(p, "error", ReRaise(code, n), n, o5)
    /\ UNCHANGED <<fs, okfetch>>

\* urlretrieve raises ContentTooShortError: the partial file is removed
\* (lines 96-102). The SRTM download does not catch it; the DEM3 handler
\* (lines 418-423) reads err.code before it sleeps and continues, which
\* raises UnboundLocalError unless an earlier HTTPError handler left err bound
FetchTooShort(p) ==
    /\ pc[p] = "fetch"
    /\ rc[p] < MaxAttempts
    /\ LET n == rc[p] + 1
       IN  IF Kind(call[p].tile) = "srtm"
             THEN EndCall(p, "error", Exc("ContentTooShortError"), n, FALSE)
             ELSE IF errb[p]
                    THEN /\ n < MaxAttempts
                         /\ Goto(p, "sleep", n, FALSE, errb[p], slept[p])
                    ELSE EndCall(p, "error", Exc("UnboundLocalError"), n, FALSE)
    /\ UNCHANGED <<fs, okfetch>>

\* urlretrieve raises another URLError: caught by no handler
FetchURLError(p) ==
    /\ pc[p] = "fetch"
    /\ rc[p] < MaxAttempts
    /\ EndCall(p, "error", Exc("URLError"), rc[p] + 1, FALSE)
    /\ UNCHANGED <<fs, okfetch>>

\* time.sleep(10); continue (lines 339-340, 414-415, 422-423)
NoSleep(secs) == secs
SleepFor(secs) == secs + SleepSecs

Sleep(p) ==
    /\ pc[p] = "sleep"
    /\ Goto(p, "fetch", rc[p], only5xx[p], errb[p], SleepFor(slept[p]))
    /\ UNCHANGED <<fs, okfetch>>

\* with zipfile.ZipFile(ofile) as zf: zf.extractall(outdir); break
\* except zipfile.BadZipfile: return None (lines 327-329, 343-346, 402-404,
\* 425-428)
Extract(p) ==
    /\ pc[p] = "extract"
    /\ LET t == call[p].tile
           d == call[p].dir
           f == fs[d][t]
       IN  IF f.zip = "bad"
             THEN /\ EndCall(p, "absent", Exc("BadZipfile"), rc[p], FALSE)
                  /\ fs' = fs
             ELSE /\ Stay(p, IF Kind(t) = "srtm" THEN "verify" ELSE "glob")
                  /\ fs' = IF f.zip = "good"
                             THEN IF Kind(t) = "srtm"
                                    THEN [fs EXCEPT ![d][t].out = TRUE]
                                    ELSE [fs EXCEPT ![d][t].hgt = TRUE]
                             ELSE fs
    /\ UNCHANGED okfetch

\* out = ...; assert os.path.exists(out); return out (lines 348-350)
Verify(p) ==
    /\ pc[p] = "verify"
    /\ IF fs[call[p].dir][call[p].tile].out
         THEN EndCall(p, "path", NoExc, rc[p], FALSE)
         ELSE EndCall(p, "error", Exc("AssertionError"), rc[p], FALSE)
    /\ UNCHANGED <<fs, okfetch>>

\* globlist; if not globlist: raise RuntimeError; merge the HGT files into
\* outpath, remove them, return outpath (lines 436-468)
Glob(p) ==
    /\ pc[p] = "glob"
    /\ LET t == call[p].tile
           d == call[p].dir
       IN  IF fs[d][t].hgt
             THEN /\ fs' = [fs EXCEPT ![d][t].out = TRUE, ![d][t].hgt = FALSE]
                  /\ EndCall(p, "path", NoExc, rc[p], FALSE)
             ELSE /\ fs' = fs
                  /\ EndCall(p, "error", Exc("RuntimeError"), rc[p], FALSE)
    /\ UNCHANGED okfetch

\* the steps of a process inside its call, after the lock
Run(p) ==
    \/ Check(p)
    \/ FetchArrives(p)
    \/ FetchHTTPError(p)
    \/ FetchTooShort(p)
    \/ FetchURLError(p)
    \/ Sleep(p)
    \/ Extract(p)
    \/ Verify(p)
    \/ Glob(p)
    \/ Exit(p)

\* ------------------------------------------------- zone indexers (580-750)
\* Coordinates are whole numbers of 1/Unit degree; a sampled point is the
\* fraction N / D of a degree.
Unit == 2
Deg(x) == x * Unit

RoundDown(a, b) == a \div b
CeilDiv(a, b) == -((-a) \div b)
FloorDiv(a, b) == a \div b
Abs(a) == IF a < 0 THEN -a ELSE a
Min2(a, b) == IF a <= b THEN a ELSE b
Max2(a, b) == IF a <= b THEN b ELSE a

\* np.min(ran), np.max(ran) of a pair
RanMin(ran) == Min2(ran[1], ran[2])
RanMax(ran) == Max2(ran[1], ran[2])

\* np.linspace(mi, ma, n): the points mi + k (ma - mi) / (n - 1), k = 0..n-1,
\* in order
Linspace(mi, ma, n) ==
    [k \in 1..n |-> [N |-> mi * (n - 1) + (k - 1) * (ma - mi), D |-> Unit * (n - 1)]]

\* the characters of the ids and their code points (the order of sorted())
Chars == <<"0", "1", "2", "3", "4", "5", "6", "7", "8", "9",
           "A", "B", "C", "D", "E", "F", "G", "H", "I", "J", "K", "L", "M",
           "N", "O", "P", "Q", "R", "S", "T", "U", "V", "W", "X", "Y", "Z", "_">>
Digit(d) == Chars[d + 1]
Letter(i) == Chars[11 + i]
CodeOfDigit(d) == 48 + d
CodeOfLetter(i) == 65 + i

\* '{:02.0f}'.format(v), '%02.0f' % v and '{:03.0f}'.format(v) of a whole
\* number v >= 0: the digits, padded with zeros to the width
Fmt02(v) == IF v < 10 THEN "0" \o ToString(v) ELSE ToString(v)
Fmt03(v) == IF v < 10 THEN "00" \o ToString(v)
            ELSE IF v < 100 THEN "0" \o ToString(v) ELSE ToString(v)
Codes02(v) == IF v < 100 THEN <<CodeOfDigit(v \div 10), CodeOfDigit(v % 10)>>
              ELSE <<CodeOfDigit(v \div 100), CodeOfDigit((v \div 10) % 10),
                     CodeOfDigit(v % 10)>>

\* the order of Python strings: by code point, a proper prefix first
RECURSIVE LexLess(_, _)
LexLess(a, b) ==
    IF a = <<>> THEN b # <<>>
    ELSE IF b = <<>> THEN FALSE
    ELSE IF Head(a) # Head(b) THEN Head(a) < Head(b)
    ELSE LexLess(Tail(a), Tail(b))

\* list(sorted(set(zones))): the ids of a set of zones in string order
RECURSIVE SortedIds(_)
SortedIds(zs) ==
    IF zs = {} THEN <<>>
    ELSE LET m == CHOOSE z \in zs : \A y \in zs : y = z \/ LexLess(z.key, y.key)
         IN  <<m.id>> \o SortedIds(zs \ {m})

\* the ids in the order of the double loop, not sorted
RECURSIVE LoopIds(_, _)
LoopIds(zseq, i) ==
    IF i > Len(zseq) THEN <<>>
    ELSE LET rest == LoopIds(zseq, i + 1)
         IN  IF \E j \in 1..(i - 1) : zseq[j].id = zseq[i].id
               THEN rest ELSE <<zseq[i].id>> \o rest

SeqRange(q) == {q[i] : i \in DOMAIN q}

\* SRTM tiles of 5 degrees (lines 596-600)
srtm_x0 == -180
srtm_y0 == 60
srtm_dx == 5
srtm_dy == -5

\* zx, zy and the id of the tile of one sampled point (lines 611-616)
SrtmTile(lon, lat) ==
    LET zx == CeilDiv(lon.N - srtm_x0 * lon.D, srtm_dx * lon.D)
        zy == CeilDiv(srtm_y0 * lat.D - lat.N, (-srtm_dy) * lat.D)
    IN  [id |-> Fmt02(zx) \o "_" \o Fmt02(zy),
         key |-> Codes02(zx) \o <<95>> \o Codes02(zy)]

\* np.linspace(mi, ma, np.ceil((ma - mi) + 3)) (lines 603-606, 717-720)
EndsOnly(ran) == Linspace(RanMin(ran), RanMax(ran), 2)
Densify(ran) ==
    Linspace(RanMin(ran), RanMax(ran), CeilDiv(RanMax(ran) - RanMin(ran), Unit) + 3)

\* assert dy < 0 for every sampled latitude (line 613)
SrtmAssertHolds(lat_ran) ==
    \A k \in DOMAIN Densify(lat_ran) :
        Densify(lat_ran)[k].N - srtm_y0 * Densify(lat_ran)[k].D < 0

\* srtm_zone(lon_ran, lat_ran) where the assertion holds (lines 580-617)
SrtmTiles(lon_ran, lat_ran) ==
    {SrtmTile(Densify(lon_ran)[i], Densify(lat_ran)[j]) :
        i \in DOMAIN Densify(lon_ran), j \in DOMAIN Densify(lat_ran)}
srtm_zone(lon_ran, lat_ran) == SortedIds(SrtmTiles(lon_ran, lat_ran))

\* Special regions for viewfinderpanoramas.org, in degrees (lines 66-84)
DEM3REG ==
    <<[name |-> "ISL", box |-> <<-25, -12, 63, 67>>],
      [name |-> "SVALBARD", box |-> <<10, 34, 76, 81>>],
      [name |-> "JANMAYEN", box |-> <<-10, -7, 70, 72>>],
      [name |-> "FJ", box |-> <<36, 66, 79, 82>>],
      [name |-> "FAR", box |-> <<-8, -6, 61, 63>>],
      [name |-> "BEAR", box |-> <<18, 20, 74, 75>>],
      [name |-> "SHL", box |-> <<-3, 0, 60, 61>>]>>

\* the inset boxes tested inside a special region, with the zone returned
\* (lines 650-673)
DEM3INSETS ==
    <<[name |-> "SR15", box |-> <<-91, -90, -72, -68>>],
      [name |-> "SP23", box |-> <<-47, -43, -61, -60>>],
      [name |-> "SQ58", box |-> <<162, 165, -68, -66>>],
      [name |-> "U20", box |-> <<-66, -60, 80, 83>>],
      [name |-> "U21", box |-> <<-60, -54, 80, 83>>],
      [name |-> "U22", box |-> <<-54, -48, 80, 83>>]>>

\* the four comparisons of an extent with a box (lines 644-647, 650-673)
InBox(lon_ran, lat_ran, box) ==
    /\ RanMin(lon_ran) >= Deg(box[1])
    /\ RanMax(lon_ran) <= Deg(box[2])
    /\ RanMin(lat_ran) >= Deg(box[3])
    /\ RanMax(lat_ran) <= Deg(box[4])

\* the result of the loop over extra_reg: the zone of the first region that
\* holds the extent, <<>> if none does (lines 642-676)
RECURSIVE Dem3Special(_, _, _)
Dem3Special(lon_ran, lat_ran, i) ==
    IF i > Len(DEM3REG) THEN <<>>
    ELSE IF InBox(lon_ran, lat_ran, DEM3REG[i].box)
           THEN LET hit == {k \in DOMAIN DEM3INSETS :
                              InBox(lon_ran, lat_ran, DEM3INSETS[k].box)}
                IN  IF hit # {}
                      THEN <<DEM3INSETS[CHOOSE k \in hit : \A j \in hit : k <= j].name>>
                      ELSE <<DEM3REG[i].name>>
           ELSE Dem3Special(lon_ran, lat_ran, i + 1)

\* corrected SRTMs: tiles of 6 deg longitude and 4 deg latitude (lines 680-683)
dem3_x0 == -180
dem3_y0 == 0
dem3_dx == 6
dem3_dy == 4

\* np.linspace(mi, ma, np.ceil((ma - mi)/srtm_dy)+3) for the longitudes and
\* np.linspace(mi, ma, np.ceil((ma - mi)/srtm_dx)+3) for the latitudes
\* (lines 686-691)
Dem3Lons(lon_ran) ==
    Linspace(RanMin(lon_ran), RanMax(lon_ran),
             CeilDiv(RanMax(lon_ran) - RanMin(lon_ran), dem3_dy * Unit) + 3)
Dem3Lats(lat_ran) ==
    Linspace(RanMin(lat_ran), RanMax(lat_ran),
             CeilDiv(RanMax(lat_ran) - RanMin(lat_ran), dem3_dx * Unit) + 3)

\* the id of the tile of one sampled point (lines 696-704)
Dem3Tile(lon, lat) ==
    LET zx == CeilDiv(lon.N - dem3_x0 * lon.D, dem3_dx * lon.D)
        band == Abs(lat.N - dem3_y0 * lat.D) \div (dem3_dy * lat.D)
    IN  IF lat.N >= 0
          THEN [id |-> Letter(band) \o Fmt02(zx),
                key |-> <<CodeOfLetter(band)>> \o Codes02(zx)]
          ELSE [id |-> "S" \o Letter(band) \o Fmt02(zx),
                key |-> <<CodeOfLetter(18), CodeOfLetter(band)>> \o Codes02(zx)]

Dem3Tiles(lon_ran, lat_ran) ==
    {Dem3Tile(Dem3Lons(lon_ran)[i], Dem3Lats(lat_ran)[j]) :
        i \in DOMAIN Dem3Lons(lon_ran), j \in DOMAIN Dem3Lats(lat_ran)}

\* dem3_viewpano_zone(lon_ran, lat_ran) (lines 620-705)
dem3_viewpano_zone(lon_ran, lat_ran) ==
    IF Dem3Special(lon_ran, lat_ran, 1) # <<>>
      THEN Dem3Special(lon_ran, lat_ran, 1)
      ELSE SortedIds(Dem3Tiles(lon_ran, lat_ran))

\* ASTER: units of 5 by 5, tiles of 1 by 1 (line 714)
units_dx == 5

\* the tile and the unit of one sampled point (lines 726-745)
AsterTile(lon, lat) ==
    LET dx == FloorDiv(lon.N, lon.D)
        zx == FloorDiv(lon.N, units_dx * lon.D) * units_dx
        dy == FloorDiv(lat.N, lat.D)
        zy == FloorDiv(lat.N, units_dx * lat.D) * units_dx
        lon_let == IF dx < 0 THEN "W" ELSE "E"
        lat_let == IF dy < 0 THEN "S" ELSE "N"
    IN  [id |-> lat_let \o Fmt02(Abs(dy)) \o lon_let \o Fmt03(Abs(dx)),
         unit |-> lat_let \o Fmt02(IF dy < 0 THEN -zy ELSE zy)
                  \o lon_let \o Fmt03(IF dx < 0 THEN -zx ELSE zx)]

\* the double loop over the extent as given, without np.min and np.max
AsterLoopAsGiven(lon_ex, lat_ex) ==
    LET lons == Linspace(lon_ex[1], lon_ex[2], CeilDiv(Abs(lon_ex[2] - lon_ex[1]), Unit) + 3)
        lats == Linspace(lat_ex[1], lat_ex[2], CeilDiv(Abs(lat_ex[2] - lat_ex[1]), Unit) + 3)
        m == Len(lats)
    IN  [i \in 1..(Len(lons) * m) |->
            AsterTile(lons[((i - 1) \div m) + 1], lats[((i - 1) % m) + 1])]

\* the points of the double loop, in its order: for lon: for lat (724-725)
AsterLoop(lon_ex, lat_ex) ==
    LET lons == Densify(lon_ex)
        lats == Densify(lat_ex)
        m == Len(lats)
    IN  [i \in 1..(Len(lons) * m) |->
            AsterTile(lons[((i - 1) \div m) + 1], lats[((i - 1) % m) + 1])]

\* the units of all the points of the loop
LoopUnitsAll(zseq, i) == [k \in 1..Len(zseq) |-> zseq[k].unit]

\* the units of the tiles kept by `if z not in zones` (lines 746-748)
RECURSIVE LoopUnits(_, _)
LoopUnits(zseq, i) ==
    IF i > Len(zseq) THEN <<>>
    ELSE LET rest == LoopUnits(zseq, i + 1)
         IN  IF \E j \in 1..(i - 1) : zseq[j].id = zseq[i].id
               THEN rest ELSE <<zseq[i].unit>> \o rest

\* aster_zone(lon_ex, lat_ex): zones, units (lines 708-750)
aster_zone(lon_ex, lat_ex) ==
    [zones |-> LoopIds(AsterLoop(lon_ex, lat_ex), 1),
     units |-> LoopUnits(AsterLoop(lon_ex, lat_ex), 1)]

\* ------------------------------------------- merged file name (1069-1078)
\* source_str.lower()
Lower(source_str) ==
    CASE source_str = "SRTM" -> "srtm"
      [] source_str = "DEM3" -> "dem3"
      [] source_str = "ASTER" -> "aster"
      [] OTHER -> "other"

\* '+'.join(zones)
RECURSIVE Join(_)
Join(zones) ==
    IF zones = <<>> THEN ""
    ELSE IF Len(zones) = 1 THEN zones[1]
    ELSE zones[1] \o "+" \o Join(Tail(zones))

\* if len(bname) > 200 (line 1072)
MaxNameLen == 200

\* bname: the name built from the zones, replaced by the md5 of the name
\* (a function of the name alone, taken as one-to-one) when it is longer than
\* 200 characters
merged_name(source_str, zones) ==
    LET bname == Lower(source_str) \o "_merged_" \o Join(zones) \o ".tif"
    IN  [md5 |-> Len(bname) > MaxNameLen, of |-> bname]

\* ------------------------------------------- names of given extents
\* the provider branches that set zones and source_str (lines 1028-1051)
NameSources == {"SRTM", "DEM3", "ASTER"}

\* zones = dem3_viewpano_zone(...), zones, units = aster_zone(...),
\* zones = srtm_zone(...) (lines 1031, 1038, 1048)
ZonesOf(source_str, lon_ex, lat_ex) ==
    CASE source_str = "SRTM" -> srtm_zone(lon_ex, lat_ex)
      [] source_str = "DEM3" -> dem3_viewpano_zone(lon_ex, lat_ex)
      [] source_str = "ASTER" -> aster_zone(lon_ex, lat_ex).zones

\* ends of the extents: between 0 and 5.5 degrees east, 0 and 3.5 degrees
\* north, in either order
NameLons == {Deg(0), Deg(0) + 1, Deg(5) + 1}
NameLats == {Deg(0), Deg(1) + 1, Deg(3) + 1}
NameInputs ==
    [source_str : NameSources, lon_ex : NameLons \X NameLons,
     lat_ex : NameLats \X NameLats]

\* zones and bname of every input
NameTable ==
    [i \in NameInputs |->
        LET zones == ZonesOf(i.source_str, i.lon_ex, i.lat_ex)
        IN  [zones |-> zones, name |-> merged_name(i.source_str, zones)]]

NoName == [source_str |-> "none", zones |-> <<>>,
           name |-> [md5 |-> FALSE, of |-> ""],
           lon_ex |-> <<0, 0>>, lat_ex |-> <<0, 0>>]

\* the name is computed for an extent of two zones or more (the merge branch
\* needs two sources)
ComputeName ==
    /\ \E i \in NameInputs :
          /\ Len(NameTable[i].zones) >= 2
          /\ nm' = [source_str |-> i.source_str,
                    zones |-> NameTable[i].zones,
                    name |-> NameTable[i].name,
                    lon_ex |-> i.lon_ex, lat_ex |-> i.lat_ex]
    /\ UNCHANGED <<zn, tz, dvars, svars, tvars, mvars>>

\* ------------------------------------------- srtm_zone on given extents
\* ends of the ranges: on the edges of the 5 degree cells and between them,
\* south of 60 degrees north
ZoneLons == {Deg(0), Deg(5), Deg(5) + 1, Deg(10), Deg(12)}
ZoneLats == {Deg(45), Deg(46), Deg(47), Deg(50), Deg(52)}

\* an extent cut in two along one axis: the range [a, c] of that axis with a
\* point b inside it, and the range of the other axis
ZoneInputs ==
    {[axis |-> "lon", cut |-> <<a, b, c>>, other |-> <<d, e>>] :
        a \in ZoneLons, b \in ZoneLons, c \in ZoneLons,
        d \in ZoneLats, e \in ZoneLats}
    \cup
    {[axis |-> "lat", cut |-> <<a, b, c>>, other |-> <<d, e>>] :
        a \in ZoneLats, b \in ZoneLats, c \in ZoneLats,
        d \in ZoneLons, e \in ZoneLons}
Ordered(i) == i.cut[1] <= i.cut[2] /\ i.cut[2] <= i.cut[3] /\ i.other[1] <= i.other[2]

\* srtm_zone of every extent
ZoneTable ==
    [e \in (ZoneLons \X ZoneLons) \X (ZoneLats \X ZoneLats) |->
        srtm_zone(e[1], e[2])]

\* srtm_zone of the range [lo, hi] of the cut axis and the other range
ZonesOfCut(i, lo, hi) ==
    IF i.axis = "lon" THEN ZoneTable[<<<<lo, hi>>, i.other>>]
                      ELSE ZoneTable[<<i.other, <<lo, hi>>>>]

NoZones == [axis |-> "none", cut |-> <<0, 0, 0>>, other |-> <<0, 0>>,
            whole |-> <<>>, left |-> <<>>, right |-> <<>>]

\* one caller: the extent and its two parts go through srtm_zone
ComputeZones ==
    /\ zn = NoZones
    /\ \E i \in ZoneInputs :
          /\ Ordered(i)
          /\ zn' = [axis |-> i.axis, cut |-> i.cut, other |-> i.other,
                    whole |-> ZonesOfCut(i, i.cut[1], i.cut[3]),
                    left |-> ZonesOfCut(i, i.cut[1], i.cut[2]),
                    right |-> ZonesOfCut(i, i.cut[2], i.cut[3])]
    /\ UNCHANGED <<nm, tz, dvars, svars, tvars, mvars>>

\* the zones reach the caller
ZonesDone ==
    /\ zn # NoZones
    /\ zn' = NoZones
    /\ UNCHANGED <<nm, tz, dvars, svars, tvars, mvars>>

\* ------------------------------------------- get_topo_file (933-1094)
\* source: None ("none") or one of the names of the docstring, or a list of
\* names
TopoSources == {"none", "USER", "SRTM", "GIMP", "RAMP", "DEM3", "ASTER", "ETOPO1"}
SourceLists == {<<>>, <<"SRTM", "ETOPO1">>, <<"USER", "ETOPO1">>,
                <<"ETOPO1", "USER">>, <<"USER", "SRTM">>}
SourceArgs ==
    {[list |-> FALSE, names |-> <<n>>] : n \in TopoSources}
      \cup {[list |-> TRUE, names |-> l] : l \in SourceLists}
\* rgi_region: 0 stands for None
Regions == {0, 5, 11, 19}
\* extents in the Alps, at the edges of the SRTM grid, and south of it
TopoLons == {<<Deg(10), Deg(12)>>, <<Deg(11), Deg(12)>>}
TopoLats == {<<Deg(46), Deg(47)>>, <<Deg(59), Deg(60)>>, <<Deg(60), Deg(61)>>,
             <<Deg(-60), Deg(-59)>>, <<Deg(-61), Deg(-59)>>, <<Deg(-62), Deg(-61)>>}
TopoArgs ==
    [lon_ex : TopoLons, lat_ex : TopoLats, rgi_region : Regions,
     source : SourceArgs]

\* the files of the caller's configuration and the tile rasters at hand:
\*   dem_file  cfg.PATHS['dem_file'] is set and is a file
\*   etopo     ETOPO1_Ice_g_geotiff.tif is in topo_dir
\*   present   the zones whose tile exists (the others are answered 404)
TopoZones == {"38_03", "39_03"}
Worlds == [dem_file : BOOLEAN, etopo : BOOLEAN, present : SUBSET TopoZones]
NoWorld == [dem_file |-> FALSE, etopo |-> FALSE, present |-> {}]

\* how a call ends: return path, label; or an exception raised at a line.
\* zones is the zone list the call had computed
Return(path, label) ==
    [kind |-> "return", path |-> path, label |-> label, exc |-> "none",
     line |-> 0, zones |-> <<>>]
Raise(exc, line, zones) ==
    [kind |-> "raise", path |-> "none", label |-> "none", exc |-> exc,
     line |-> line, zones |-> zones]
NoOut == [kind |-> "none", path |-> "none", label |-> "none", exc |-> "none",
          line |-> 0, zones |-> <<>>]
NoTopo == [called |-> FALSE, args |-> [lon_ex |-> <<0, 0>>, lat_ex |-> <<0, 0>>,
                                       rgi_region |-> 0,
                                       source |-> [list |-> FALSE, names |-> <<"none">>]],
           out |-> NoOut]

\* source = X if source is None else source
ForceDefault(source, default) == default
OrDefault(source, default) == IF source = "none" THEN default ELSE source

\* download_dem3_viewpano(z) and download_srtm_file(z) are called with one
\* argument, the functions take (zone, outdir) (lines 291, 353, 1033, 1050);
\* _download_aster_file and _download_alternate_topo_file call
\* get_download_lock() without its lock_dir (lines 87, 472, 511): each of
\* these calls raises TypeError before the lock is taken or a file is touched
TileLoop(zones, line) == Raise("TypeError", line, zones)

\* (np.min(lat_ex) < -60.) or (np.max(lat_ex) > 60.) (line 1024)
OutsideSrtmInclusive(lat_ex) ==
    RanMin(lat_ex) <= Deg(-60) \/ RanMax(lat_ex) >= Deg(60)
OutsideSrtm(lat_ex) ==
    RanMin(lat_ex) < Deg(-60) \/ RanMax(lat_ex) > Deg(60)

\* lines 1024-1051: DEM3, ASTER or SRTM. A source that is none of them leaves
\* `sources` unbound
TopoTiles(source, a, w) ==
    IF \/ OutsideSrtm(a.lat_ex)
       \/ source \in {"DEM3", "ASTER"}
      THEN LET s == OrDefault(source, "DEM3")
           IN  CASE s = "DEM3" ->
                      TileLoop(dem3_viewpano_zone(a.lon_ex, a.lat_ex), 1033)
                 [] s = "ASTER" ->
                      TileLoop(aster_zone(a.lon_ex, a.lat_ex).zones, 1040)
                 [] OTHER -> [NoOut EXCEPT !.label = s]
      ELSE LET s == OrDefault(source, "SRTM")
           IN  IF s = "SRTM"
                 THEN IF SrtmAssertHolds(a.lat_ex)
                        THEN TileLoop(srtm_zone(a.lon_ex, a.lat_ex), 1050)
                        ELSE Raise("AssertionError", 613, <<>>)
                 ELSE [NoOut EXCEPT !.label = s]

\* if source == 'ETOPO1' (line 1054)
EtopoFallback(source) == TRUE
EtopoBranch(source) == source = "ETOPO1"

\* lines 1053-1060: ETOPO1, or the filter of `sources`, which no branch has
\* bound when it is reached
TopoTail(source, a, w) ==
    LET t == TopoTiles(source, a, w)
    IN  IF t.kind # "none" THEN t
        ELSE IF EtopoBranch(t.label)
               THEN IF w.etopo THEN Return("ETOPO1_Ice_g_geotiff.tif", "ETOPO1")
                               ELSE Raise("AssertionError", 1056, <<>>)
               ELSE Raise("UnboundLocalError", 1060, <<>>)

\* lines 994-1021 for a source that is None or a string ("list": a list of
\* sources that the loop of line 987 has left, equal to no name)
TopoSingle(source, a, w) ==
    IF w.dem_file /\ OrDefault(source, "USER") = "USER"
      THEN Return("dem_file", "USER")
      ELSE
        IF (source = "GIMP" \/ a.rgi_region = 5) /\ OrDefault(source, "GIMP") = "GIMP"
          THEN Raise("TypeError", 1009, <<>>)
          ELSE
            IF source = "RAMP" \/ a.rgi_region = 19
              THEN LET s == IF RanMax(a.lat_ex) > Deg(-60)
                              THEN OrDefault(source, "DEM3")
                              ELSE OrDefault(source, "RAMP")
                   IN  IF s = "RAMP" THEN Raise("TypeError", 1020, <<>>)
                                     ELSE TopoTail(s, a, w)
              ELSE TopoTail(source, a, w)

\* os.path.isfile(demf): what a call returns is the user's file or the ETOPO1
\* file, found on disk before it is returned
IsFile(path, w) ==
    \/ path = "dem_file" /\ w.dem_file
    \/ path = "ETOPO1_Ice_g_geotiff.tif" /\ w.etopo

\* lines 985-991: the sources of a list are tried in order; an exception of a
\* try leaves the call, a returned file ends it
RECURSIVE TopoList(_, _, _, _)
TopoList(sources, i, a, w) ==
    IF i > Len(sources) THEN TopoSingle("list", a, w)
    ELSE LET out == TopoSingle(sources[i], a, w)
         IN  IF out.kind = "raise" THEN out
             ELSE IF IsFile(out.path, w) THEN out
             ELSE TopoList(sources, i + 1, a, w)

\* the number of sources of the list that the loop of line 987 has called
\* when the call ends
RECURSIVE TopoTried(_, _, _, _)
TopoTried(sources, i, a, w) ==
    IF i > Len(sources) THEN Len(sources)
    ELSE LET out == TopoSingle(sources[i], a, w)
         IN  IF out.kind = "raise" \/ IsFile(out.path, w) THEN i
             ELSE TopoTried(sources, i + 1, a, w)

\* get_topo_file(lon_ex, lat_ex, rgi_region=None, source=None)
get_topo_file(a, w) ==
    IF a.source.list THEN TopoList(a.source.names, 1, a, w)
                     ELSE TopoSingle(a.source.names[1], a, w)

\* the provider a call went to, told by where the call ended
Provider(out) ==
    CASE out.label = "USER" -> "USER"
      [] out.line = 1009 -> "GIMP"
      [] out.line = 1020 -> "RAMP"
      [] out.line = 1033 -> "DEM3"
      [] out.line = 1040 -> "ASTER"
      [] out.line \in {613, 1050} -> "SRTM"
      [] out.label = "ETOPO1" \/ out.line = 1056 -> "ETOPO1"
      [] OTHER -> "none"

\* the caller's files change between calls
SetWorld ==
    /\ ~topo.called
    /\ \E w \in Worlds : w # world /\ world' = w
    /\ topo' = topo
    /\ UNCHANGED <<dvars, svars, mvars, nvars>>

GetTopoFile ==
    /\ ~topo.called
    /\ \E a \in TopoArgs :
          topo' = [called |-> TRUE, args |-> a, out |-> get_topo_file(a, world)]
    /\ UNCHANGED <<world, dvars, svars, mvars, nvars>>

\* the outcome reaches the caller
TopoDone ==
    /\ topo.called
    /\ topo' = NoTopo
    /\ UNCHANGED <<world, dvars, svars, mvars, nvars>>

\* ------------------ dem3_viewpano_zone and aster_zone on given extents
Extent(lon_ex, lat_ex) == [lon_ex |-> lon_ex, lat_ex |-> lat_ex]
BoxExtent(b) == Extent(<<Deg(b[1]), Deg(b[2])>>, <<Deg(b[3]), Deg(b[4])>>)

\* extents of the regular grid, short and long, on both sides of the equator
Dem3GridLons == {Deg(10), Deg(11), Deg(13)}
Dem3GridLats == {Deg(-36), Deg(-3), Deg(0), Deg(3), Deg(30), Deg(36)}

\* the boxes of the special regions and of the insets, whole and without
\* their rim, and the extents of the regular grid
Dem3Boxes ==
    {DEM3REG[i].box : i \in DOMAIN DEM3REG}
    \cup {DEM3INSETS[i].box : i \in DOMAIN DEM3INSETS}
Dem3Inputs ==
    {BoxExtent(b) : b \in Dem3Boxes}
    \cup {Extent(<<Deg(b[1]) + 1, Deg(b[2]) - 1>>, <<Deg(b[3]) + 1, Deg(b[4]) - 1>>) :
             b \in Dem3Boxes}
    \cup {Extent(<<a, b>>, <<c, d>>) :
             a \in Dem3GridLons, b \in Dem3GridLons,
             c \in Dem3GridLats, d \in Dem3GridLats}

\* extents on both sides of the zero meridian and of the equator, across
\* the edges of the units
AsterLons == {Deg(-6), Deg(-1) + 1, Deg(0), Deg(5)}
AsterLats == {Deg(-1), Deg(0) + 1, Deg(4), Deg(5)}
AsterInputs ==
    {Extent(<<a, b>>, <<c, d>>) :
        a \in AsterLons, b \in AsterLons, c \in AsterLats, d \in AsterLats}

Dem3Table == [e \in Dem3Inputs |-> dem3_viewpano_zone(e.lon_ex, e.lat_ex)]
AsterTable == [e \in AsterInputs |-> aster_zone(e.lon_ex, e.lat_ex)]

NoTiles == [fn |-> "none", lon_ex |-> <<0, 0>>, lat_ex |-> <<0, 0>>,
            zones |-> <<>>, units |-> <<>>]

\* zones = dem3_viewpano_zone(lon_ex, lat_ex)
ComputeDem3 ==
    /\ tz = NoTiles
    /\ \E e \in Dem3Inputs :
          tz' = [fn |-> "dem3", lon_ex |-> e.lon_ex, lat_ex |-> e.lat_ex,
                 zones |-> Dem3Table[e], units |-> <<>>]
    /\ UNCHANGED <<nm, zn, dvars, svars, tvars, mvars>>

\* zones, units = aster_zone(lon_ex, lat_ex)
ComputeAster ==
    /\ tz = NoTiles
    /\ \E e \in AsterInputs :
          tz' = [fn |-> "aster", lon_ex |-> e.lon_ex, lat_ex |-> e.lat_ex,
                 zones |-> AsterTable[e].zones, units |-> AsterTable[e].units]
    /\ UNCHANGED <<nm, zn, dvars, svars, tvars, mvars>>

\* the lists reach the caller
TilesDone ==
    /\ tz # NoTiles
    /\ tz' = NoTiles
    /\ UNCHANGED <<nm, zn, dvars, svars, tvars, mvars>>

\* ------------------------------- filter and merge section (1059-1094)
\* what the section starts from: source_str, zones and, zone by zone, the
\* outcome of the tile download: the tile raster or None
MergeKinds == {<<"SRTM", <<"38_03", "39_03">>>>, <<"DEM3", <<"L32", "M32">>>>}
MergeInputs ==
    {[source_str |-> k[1], zones |-> k[2], sources |-> srcs] :
        k \in MergeKinds, srcs \in [1..2 -> {"tif", "None"}]}
MergeNames == {merged_name(k[1], k[2]) : k \in MergeKinds}

\* sources = [s for s in sources if s is not None] (line 1060)
KeepAll(sources) == sources
NotNone(sources) == SelectSeq(sources, LAMBDA x : x # "None")

NoLocals == [source_str |-> "none", name |-> [md5 |-> FALSE, of |-> ""],
             given |-> <<>>, out |-> NoOut]

\* lines 1059-1079: filter, the two short ends, the name, os.path.exists
MergeEnter(p) ==
    /\ mpc[p] = "idle"
    /\ \E i \in MergeInputs :
         LET sources == NotNone(i.sources)
             name == merged_name(i.source_str, i.zones)
             loc == [source_str |-> i.source_str, name |-> name,
                     given |-> i.sources, out |-> NoOut]
         IN  IF Len(sources) < 1
               THEN /\ mpc' = [mpc EXCEPT ![p] = "done"]
                    /\ mloc' = [mloc EXCEPT ![p] =
                                  [loc EXCEPT !.out = Raise("RuntimeError", 1063, i.zones)]]
               ELSE IF Len(sources) = 1
                 THEN /\ mpc' = [mpc EXCEPT ![p] = "done"]
                      /\ mloc' = [mloc EXCEPT ![p] =
                                    [loc EXCEPT !.out = Return("tile", i.source_str)]]
                 ELSE IF mfile[name] # "none"
                   THEN /\ mpc' = [mpc EXCEPT ![p] = "done"]
                        /\ mloc' = [mloc EXCEPT ![p] =
                                      [loc EXCEPT !.out =
                                          Return("merged_file", i.source_str \o "_MERGED")]]
                   ELSE /\ mpc' = [mpc EXCEPT ![p] = "merge"]
                        /\ mloc' = [mloc EXCEPT ![p] = loc]
    /\ UNCHANGED <<mfile, merges, dvars, svars, tvars, nvars>>

\* lines 1084-1093: the tiles are read and merged, then
\* rasterio.open(merged_file, 'w') creates the file, or empties it
MergeOpen(p) ==
    /\ mpc[p] = "merge"
    /\ mfile' = [mfile EXCEPT ![mloc[p].name] = "partial"]
    /\ mpc' = [mpc EXCEPT ![p] = "write"]
    /\ UNCHANGED <<merges, mloc, dvars, svars, tvars, nvars>>

\* line 1094 and the end of the with block: the raster is written and the
\* file closed; the file holds one whole raster unless another process has
\* it open for writing
MergeWrite(p) ==
    /\ mpc[p] = "write"
    /\ mfile' = [mfile EXCEPT ![mloc[p].name] =
                    IF \E q \in Procs \ {p} :
                          mpc[q] = "write" /\ mloc[q].name = mloc[p].name
                      THEN "partial" ELSE "complete"]
    /\ merges' = [merges EXCEPT ![mloc[p].name] = IF @ < 2 THEN @ + 1 ELSE @]
    /\ mpc' = [mpc EXCEPT ![p] = "done"]
    /\ mloc' = [mloc EXCEPT ![p].out =
                   Return("merged_file", mloc[p].source_str \o "_MERGED")]
    /\ UNCHANGED <<dvars, svars, tvars, nvars>>

\* the outcome reaches the caller
MergeExit(p) ==
    /\ mpc[p] = "done"
    /\ mpc' = [mpc EXCEPT ![p] = "idle"]
    /\ mloc' = [mloc EXCEPT ![p] = NoLocals]
    /\ UNCHANGED <<mfile, merges, dvars, svars, tvars, nvars>>

\* ------------------------------------------------------- specifications
Init ==
    /\ py2 \in BOOLEAN
    /\ lock = [d \in Dirs |-> {}]
    /\ fs = [d \in Dirs |-> [t \in Tiles |-> NoFiles]]
    /\ pc = [p \in Procs |-> "idle"]
    /\ call = [p \in Procs |-> NoCall]
    /\ rc = [p \in Procs |-> 0]
    /\ slept = [p \in Procs |-> 0]
    /\ only5xx = [p \in Procs |-> FALSE]
    /\ errb = [p \in Procs |-> FALSE]
    /\ warm = [p \in Procs |-> FALSE]
    /\ res = [p \in Procs |-> NoRes]
    /\ okfetch = [d \in Dirs |-> [t \in Tiles |-> 0]]
    /\ returned = [d \in Dirs |-> [t \in Tiles |-> FALSE]]
    /\ prev = NoPrev
    /\ again = FALSE
    /\ world = NoWorld
    /\ topo = NoTopo
    /\ mfile = [k \in MergeNames |-> "none"]
    /\ merges = [k \in MergeNames |-> 0]
    /\ mpc = [p \in Procs |-> "idle"]
    /\ mloc = [p \in Procs |-> NoLocals]
    /\ nm = NoName
    /\ zn = NoZones
    /\ tz = NoTiles

Next == \E p \in Procs : Call(p) \/ Acquire(p) \/ Run(p)

Spec == Init /\ [][Next]_vars

\* a running process goes on; a process polling the lock gets it when it is
\* free often enough
LiveSpec ==
    /\ Spec
    /\ \A p \in Procs : WF_vars(Run(p)) /\ SF_vars(Acquire(p))

NextTopo == SetWorld \/ GetTopoFile \/ TopoDone

\* the calls of one caller, one after the other
NextSeq ==
    \E p \in {1} :
        \/ SeqCall(p) \/ Acquire(p) \/ Check(p) \/ FetchArrives(p)
        \/ FetchHTTPError(p) \/ FetchTooShort(p) \/ FetchURLError(p)
        \/ Sleep(p) \/ Extract(p) \/ Verify(p) \/ Glob(p) \/ SeqExit(p)

SpecSeq == Init /\ [][NextSeq]_vars

SpecTopo == Init /\ [][NextTopo]_vars

NextMerge ==
    \E p \in Procs : MergeEnter(p) \/ MergeOpen(p) \/ MergeWrite(p) \/ MergeExit(p)

SpecMerge == Init /\ [][NextMerge]_vars

NextName == ComputeName

SpecName == Init /\ [][NextName]_vars

NextZone == ComputeZones \/ ZonesDone

NextTiles == ComputeDem3 \/ ComputeAster \/ TilesDone

SpecTiles == Init /\ [][NextTiles]_vars

SpecZone == Init /\ [][NextZone]_vars

C2_NotFoundIsAbsent ==
    \A p \in Procs : res[p].exc = HTTPError(404) => res[p].kind = "absent"

\* C2 as stated, get_topo_file: a call whose zone list holds a tile that is
\* present (the other tiles are answered 404) returns path and label
C2_ReturnsWhenATileIsPresent ==
    (/\ topo.called
     /\ \E z \in SeqRange(topo.out.zones) : z \in world.present)
        => topo.out.kind = "return"

\* the source of a call that gives one source, "none" for None
OneSource(a) == IF a.source.list THEN "list" ELSE a.source.names[1]

C19_ExampleReturnsCachedTile ==
    (/\ topo.called
     /\ OneSource(topo.args) = "none"
     /\ topo.args.rgi_region = 0
     /\ ~world.dem_file
     /\ topo.args.lon_ex = <<Deg(10), Deg(12)>>
     /\ topo.args.lat_ex = <<Deg(46), Deg(47)>>
     /\ world.present = TopoZones)
        => /\ Provider(topo.out) = "SRTM"
           /\ Len(srtm_zone(topo.args.lon_ex, topo.args.lat_ex)) = 1
           /\ topo.out.kind = "return"
           /\ topo.out.label = "SRTM"

\* the part of C19 that the call does: it goes to SRTM
C19_ExampleGoesToSrtm ==
    (/\ topo.called
     /\ OneSource(topo.args) = "none"
     /\ topo.args.rgi_region = 0
     /\ ~world.dem_file
     /\ topo.args.lon_ex = <<Deg(10), Deg(12)>>
     /\ topo.args.lat_ex = <<Deg(46), Deg(47)>>)
        => /\ Provider(topo.out) = "SRTM"
           /\ topo.out = Raise("TypeError", 1050, <<"38_03", "39_03">>)

\* C28 as stated: a call whose latitudes the selector takes for SRTM, min
\* latitude >= -60 and max latitude <= 60, does not fail on the assertion
\* of srtm_zone
C28_AcceptedExtentHasZones ==
    (/\ topo.called
     /\ RanMin(topo.args.lat_ex) >= Deg(-60)
     /\ RanMax(topo.args.lat_ex) <= Deg(60))
        => ~(topo.out.exc = "AssertionError" /\ topo.out.line = 613)

\* C29 as stated: no call reaches the filter of line 1060 with `sources`
\* unbound
C29_SourcesBound ==
    topo.called
        => ~(topo.out.exc = "UnboundLocalError" /\ topo.out.line = 1060)

\* the user file does not end the call
NoOverride(a, w) == ~(w.dem_file /\ OneSource(a) \in {"none", "USER"})

\* C13 as stated: without a user override, region 5 or source GIMP go to
\* GIMP; region 19 goes to RAMP, or to DEM3 when the max latitude is above -60
C13_HintDecides ==
    (topo.called /\ ~topo.args.source.list /\ NoOverride(topo.args, world))
        => /\ (topo.args.rgi_region = 5 \/ OneSource(topo.args) = "GIMP")
                => Provider(topo.out) = "GIMP"
           /\ (topo.args.rgi_region = 19 /\ OneSource(topo.args) # "GIMP")
                => Provider(topo.out) =
                      IF RanMax(topo.args.lat_ex) > Deg(-60) THEN "DEM3" ELSE "RAMP"

\* C13 as amended: an explicit source GIMP or RAMP goes to that provider
\* whatever the region and the latitudes; with source None region 5 goes to
\* GIMP and region 19 to RAMP, or to DEM3 when the max latitude is above -60;
\* any other explicit source goes to neither GIMP nor RAMP whatever the region
C13_HintDecidesWithoutSource ==
    (topo.called /\ ~topo.args.source.list /\ NoOverride(topo.args, world))
        => LET src == OneSource(topo.args)
               rgi == topo.args.rgi_region
               prov == Provider(topo.out)
           IN  /\ src = "GIMP" => prov = "GIMP"
               /\ src = "RAMP" => prov = "RAMP"
               /\ (src = "none" /\ rgi = 5) => prov = "GIMP"
               /\ (src = "none" /\ rgi = 19) =>
                     prov = IF RanMax(topo.args.lat_ex) > Deg(-60)
                              THEN "DEM3" ELSE "RAMP"
               /\ src \notin {"none", "GIMP", "RAMP"} => prov \notin {"GIMP", "RAMP"}

C13_Witness ==
    /\ topo.called
    /\ OneSource(topo.args) = "SRTM"
    /\ topo.args.rgi_region = 5
    /\ NoOverride(topo.args, world)
    /\ Provider(topo.out) = "SRTM"

\* the sources of a list that, asked alone, return a file
Yielding(a, w) ==
    {i \in DOMAIN a.source.names :
        TopoSingle(a.source.names[i], a, w).kind = "return"}

\* C14 as stated: a call with a list of sources returns what the first
\* source of the list that yields a file returns; a source before it that
\* yields no file does not end the call
C14_FirstYieldingSourceWins ==
    (topo.called /\ topo.args.source.list /\ Yielding(topo.args, world) # {})
        => LET first == CHOOSE i \in Yielding(topo.args, world) :
                            \A j \in Yielding(topo.args, world) : i <= j
           IN  topo.out = TopoSingle(topo.args.source.names[first], topo.args, world)

\* C15 as stated: when a source of the list finds all its tiles absent, the
\* next source is tried: an error reaches the caller only after every source
\* of the list has been tried
C15_ErrorAfterAllTried ==
    (/\ topo.called /\ topo.args.source.list
     /\ topo.out.kind = "raise"
     /\ topo.out.zones # <<>>
     /\ \A z \in SeqRange(topo.out.zones) : z \notin world.present)
        => TopoTried(topo.args.source.names, 1, topo.args, world)
              = Len(topo.args.source.names)

\* C16: a call ends in the ETOPO1 branch only if ETOPO1 is the source asked
\* for (alone or as the source of the list being tried); asked for alone, it
\* returns the local ETOPO1 file when the file is there and fails on the
\* assertion when it is not, without going to any tile download
C16_EtopoOnlyWhenAsked ==
    topo.called =>
        /\ Provider(topo.out) = "ETOPO1"
              => "ETOPO1" \in SeqRange(topo.args.source.names)
        /\ OneSource(topo.args) = "ETOPO1"
              => topo.out = IF world.etopo
                              THEN Return("ETOPO1_Ice_g_geotiff.tif", "ETOPO1")
                              ELSE Raise("AssertionError", 1056, <<>>)

C16_Witness ==
    /\ topo.called
    /\ OneSource(topo.args) = "ETOPO1"
    /\ OutsideSrtm(topo.args.lat_ex)
    /\ topo.args.rgi_region = 5
    /\ world.etopo
    /\ topo.out.kind = "return"

\* the points of a range, one every 1/Unit degree
PointsOf(ran) == RanMin(ran)..RanMax(ran)
Point(v) == [N |-> v, D |-> Unit]

\* C22 as stated: outside the special regions, the zones of
\* dem3_viewpano_zone hold the tile of every point of the extent
C22_Dem3CoversExtent ==
    (tz.fn = "dem3" /\ Dem3Special(tz.lon_ex, tz.lat_ex, 1) = <<>>)
        => \A x \in PointsOf(tz.lon_ex), y \in PointsOf(tz.lat_ex) :
              Dem3Tile(Point(x), Point(y)).id \in SeqRange(tz.zones)

\* the part of C22 that holds: extents of no more than 24 degrees of latitude
C22_Dem3CoversShortExtent ==
    (/\ tz.fn = "dem3"
     /\ Dem3Special(tz.lon_ex, tz.lat_ex, 1) = <<>>
     /\ RanMax(tz.lat_ex) - RanMin(tz.lat_ex) <= Deg(24))
        => \A x \in PointsOf(tz.lon_ex), y \in PointsOf(tz.lat_ex) :
              Dem3Tile(Point(x), Point(y)).id \in SeqRange(tz.zones)

\* '{}{:02.0f}{}{:03.0f}'.format(lat_let, lat, lon_let, lon) for the tile or
\* the block with its south-west corner at lat, lon
AsterName(lat, lon, lat_let, lon_let) ==
    lat_let \o Fmt02(Abs(lat)) \o lon_let \o Fmt03(Abs(lon))
\* the whole degrees the extents can touch
AsterDegrees == -10..10

\* C23: aster_zone returns two lists of one length, the zones without
\* duplicates, and units[i] names the block of 5 by 5 degrees around the
\* tile zones[i]: the letters of the tile, the corner of the tile floored to
\* a multiple of 5
C23_UnitsEncloseZones ==
    tz.fn = "aster" =>
        /\ Len(tz.zones) = Len(tz.units)
        /\ \A i, j \in DOMAIN tz.zones : tz.zones[i] = tz.zones[j] => i = j
        /\ \A i \in DOMAIN tz.zones :
              \E lat \in AsterDegrees, lon \in AsterDegrees :
                 LET lat_let == IF lat < 0 THEN "S" ELSE "N"
                     lon_let == IF lon < 0 THEN "W" ELSE "E"
                 IN  /\ tz.zones[i] = AsterName(lat, lon, lat_let, lon_let)
                     /\ tz.units[i] = AsterName((lat \div 5) * 5, (lon \div 5) * 5,
                                                lat_let, lon_let)

C23_Witness ==
    /\ tz.fn = "aster"
    /\ Len(tz.zones) > 12
    /\ \E i \in DOMAIN tz.zones :
          tz.zones[i] = "S01W006" /\ tz.units[i] = "S05W010"
    /\ \E i \in DOMAIN tz.zones :
          tz.zones[i] = "N05E005" /\ tz.units[i] = "N05E005"

\* C24 as stated: an extent inside the box of a region has the name of the
\* region for its zones, an extent inside the box of an inset the zone of
\* the inset
C24_SpecialZones ==
    tz.fn = "dem3" =>
        /\ \A i \in DOMAIN DEM3INSETS :
              InBox(tz.lon_ex, tz.lat_ex, DEM3INSETS[i].box)
                  => tz.zones = <<DEM3INSETS[i].name>>
        /\ \A i \in DOMAIN DEM3REG :
              InBox(tz.lon_ex, tz.lat_ex, DEM3REG[i].box)
                  => tz.zones = <<DEM3REG[i].name>>

\* the part of C24 that holds: the named regions
C24_NamedRegions ==
    tz.fn = "dem3" =>
        \A i \in DOMAIN DEM3REG :
            InBox(tz.lon_ex, tz.lat_ex, DEM3REG[i].box)
                => tz.zones = <<DEM3REG[i].name>>

\* the longitude and the latitude range of the whole extent
ZnLon == IF zn.axis = "lon" THEN <<zn.cut[1], zn.cut[3]>> ELSE zn.other
ZnLat == IF zn.axis = "lat" THEN <<zn.cut[1], zn.cut[3]>> ELSE zn.other

\* the columns and rows of the SRTM grid the extents can touch
Columns == 1..72
Rows == 1..24

C18_ZonesOfParts ==
    zn.axis # "none" =>
        SeqRange(zn.left) \cup SeqRange(zn.right) = SeqRange(zn.whole)

C18_Witness ==
    /\ zn.axis = "lon"
    /\ zn.cut = <<Deg(0), Deg(5) + 1, Deg(12)>>
    /\ Len(zn.whole) > Len(zn.left)
    /\ Len(zn.whole) > Len(zn.right)
    /\ Len(zn.left) > 1

Retried(r) == r.kind = "error" /\ r.only5xx

\* C3 as stated: a tile download whose fetch attempts all end in a 5xx makes
\* at most 5 attempts before the error propagates, 10 seconds apart
C3_AtMostFiveAttempts ==
    \A p \in Procs :
        Retried(res[p]) =>
            /\ res[p].attempts <= 5
            /\ res[p].slept = SleepSecs * (res[p].attempts - 1)

\* C3 as amended: such a download makes retry_max + 1 = 6 attempts (the first
\* one and 5 retries) before the error propagates, and every attempt after
\* the first is preceded by one sleep of 10 seconds
C3_SixAttempts ==
    \A p \in Procs :
        /\ Retried(res[p]) =>
              /\ res[p].attempts = RetryMax(res[p].tile) + 1
              /\ res[p].slept = SleepSecs * (res[p].attempts - 1)
        /\ pc[p] = "fetch" => slept[p] = SleepSecs * rc[p]

C3_Witness ==
    \E p \in Procs :
        /\ Retried(res[p])
        /\ res[p].attempts = 6
        /\ res[p].slept = 50

\* the exception carries the number n
Carries(exc, n) == \E i \in DOMAIN exc.args : exc.args[i] = n

\* C4 as stated: the error that propagates when the retries on 5xx failures
\* are used up carries the number of attempts made
C4_ErrorCarriesAttempts ==
    \A p \in Procs : Retried(res[p]) => Carries(res[p].exc, res[p].attempts)

\* C4 as amended: that error is the HTTPError of the last fetch attempt,
\* unchanged: it carries the 5xx status code and no attempt count
C4_ErrorIsLastHTTPError ==
    \A p \in Procs :
        Retried(res[p]) =>
            /\ res[p].exc.type = "HTTPError"
            /\ Len(res[p].exc.args) = 1
            /\ Is5xx(res[p].exc.args[1])
            /\ ~Carries(res[p].exc, res[p].attempts)

C4_Witness ==
    \E p \in Procs :
        /\ Retried(res[p])
        /\ res[p].exc.type = "HTTPError"
        /\ res[p].attempts > RetryMax(res[p].tile)

\* C5: the archive of a tile is fetched completely into a directory at most
\* once, and a call that starts after some call returned the tile's path
\* returns the path without a fetch attempt
C5_FetchedOnce ==
    /\ \A d \in Dirs, t \in Tiles : okfetch[d][t] <= 1
    /\ \A p \in Procs :
          /\ warm[p] =>
                /\ rc[p] = 0
                /\ pc[p] \notin {"fetch", "sleep", "extract"}
          /\ res[p].warm => (res[p].kind = "path" /\ res[p].attempts = 0)

C5_Witness ==
    \E p \in Procs, t \in Tiles :
        /\ res[p].kind = "path" /\ res[p].warm
        /\ res[p].tile = t
        /\ okfetch[res[p].dir][t] = 1

\* C20 as stated: a call that met a corrupt archive (zipfile.BadZipfile) does
\* not end with the tile reported absent: it ends with an error, after the
\* archive was fetched a second time
C20_CorruptNeverAbsent ==
    \A p \in Procs :
        (pc[p] = "exit" /\ res[p].exc = Exc("BadZipfile"))
            => (res[p].kind = "error" /\ res[p].attempts >= 2)

\* C21 as stated: a call that ends with an error leaves no archive of its
\* tile in the directory
C21_NoArchiveAfterError ==
    \A p \in Procs :
        (pc[p] = "exit" /\ res[p].kind = "error")
            => fs[res[p].dir][res[p].tile].zip = "none"

\* C25 as stated: the fetch attempts of a call stay within the retry
\* ceiling, one first attempt and retry_max more
C25_AttemptsBounded ==
    \A p \in Procs : rc[p] <= RetryMax(call[p].tile) + 1

\* C27 as stated: a call for the tile and directory of the call before it,
\* which returned None, returns None or a path, and does not fail on a file
\* it expects and does not find
C27_AbsenceDoesNotPoison ==
    (pc[1] = "exit" /\ again /\ prev.kind = "absent")
        => /\ res[1].kind \in {"absent", "path"}
              \/ res[1].exc.type \notin {"AssertionError", "RuntimeError"}

\* process p is between the existence check and the end of extraction
InSection(p) ==
    pc[p] \in {"check", "fetch", "sleep", "extract", "verify", "glob", "exit"}

\* C6: two processes are never both between the existence check and the end
\* of extraction on the same directory
C6_OneInSection ==
    \A p, q \in Procs :
        (p # q /\ InSection(p) /\ InSection(q)) => call[p].dir # call[q].dir

C6_Witness ==
    \E p, q \in Procs :
        /\ p # q
        /\ pc[p] = "extract"
        /\ pc[q] = "acquire"
        /\ call[p].dir = call[q].dir

\* C7: whichever way a locked download ends, the lock is released: a process
\* waiting for the lock of a directory gets it
Holds(p, d) == d \in Dirs /\ p \in lock[d]

NumPresent(given) == Cardinality({i \in DOMAIN given : given[i] # "None"})

\* C11: the merge step ends by the number of present tiles: none, a
\* RuntimeError; one, that tile and the source name, and the merged file is
\* not touched; two or more, the merged file and the source name followed by
\* _MERGED, whether the file was found or has just been written
C11_ResultByTileCount ==
    \A p \in Procs :
        /\ mpc[p] \in {"merge", "write"} => NumPresent(mloc[p].given) >= 2
        /\ mpc[p] = "done" =>
              LET n == NumPresent(mloc[p].given)
                  out == mloc[p].out
              IN  /\ n = 0 => (out.kind = "raise" /\ out.exc = "RuntimeError")
                  /\ n = 1 => out = Return("tile", mloc[p].source_str)
                  /\ n >= 2 => out = Return("merged_file",
                                            mloc[p].source_str \o "_MERGED")

C11_Witness ==
    \E p, q \in Procs :
        /\ mpc[p] = "done" /\ NumPresent(mloc[p].given) = 1
        /\ mpc[q] = "done" /\ NumPresent(mloc[q].given) = 2
        /\ mfile[mloc[q].name] = "complete"

\* C10: the merged file name is the same for every extent, given in either
\* order, that yields the same source and the same set of zones, also when
\* the name is replaced by its md5
C10_NameOfZoneSet ==
    \A i \in NameInputs :
        (/\ i.source_str = nm.source_str
         /\ SeqRange(NameTable[i].zones) = SeqRange(nm.zones))
            => NameTable[i].name = nm.name

C10_Witness ==
    /\ nm.name.md5
    /\ \E i \in NameInputs :
          /\ i.source_str = nm.source_str
          /\ i.lon_ex[1] > i.lon_ex[2]
          /\ nm.lon_ex[1] < nm.lon_ex[2]
          /\ SeqRange(NameTable[i].zones) = SeqRange(nm.zones)

====
